---- MODULE Spec2Model ----
(***************************************************************************)
(* Model of echr/steps/filter.py: the party-name extraction, the article   *)
(* tokenizer, the base-article resolver, the conclusion parser, the filter  *)
(* pipeline and the dataset partitioner.  Python strings are sequences of   *)
(* one-character strings, so that split, startswith, lower, strip and       *)
(* substring tests are computed as the code computes them.                  *)
(***************************************************************************)
EXTENDS Integers, Sequences, FiniteSets, TLC

VARIABLES
    pc,             \* position of the component being run
    article,        \* split_and_format_article: the argument
    articles,       \* split_and_format_article: the returned list
    base_articles,  \* find_base_articles: the returned list
    ccl,            \* format_conclusion: the argument
    candidates,     \* format_conclusion: the list art of line 212
    final_ccl,      \* format_conclusion: the structured clauses
    to_append,      \* format_conclusion: the elements handed to the merge
    result,         \* format_conclusion: the returned list
    raised,         \* the exception that ended the call, "none" if none
    raw_cases,      \* filter_cases: the argument
    cases,          \* filter_cases: the local cases, rebound by every filter
    remaining,      \* filter_cases: the lists whose sizes the 'Remaining' lines print
    norm_cases,     \* run: the normalized cases (the list cases of line 457)
    filtered_cases, \* run: the outcome-consistent cases
    outcome_keys,   \* run: the keys of the dict outcomes, in insertion order
    outcomes,       \* run: the dict outcomes
    cases_per_articles,         \* run: the per-article groups
    multilabel_cases_unique,    \* run: the multilabel view
    multiclass_cases,           \* run: the multiclass view
    docname,        \* format_cases: the case title handed to format_parties
    parties         \* format_parties: the local parties, rebound by every line

tokVars == <<article, articles, base_articles>>
parseVars == <<ccl, candidates, final_ccl, to_append, result, raised>>
filterVars == <<raw_cases, cases, remaining>>
partVars == <<norm_cases, filtered_cases, outcome_keys, outcomes, cases_per_articles,
              multilabel_cases_unique, multiclass_cases>>
partyVars == <<docname, parties>>
vars == <<pc, tokVars, parseVars, filterVars, partVars, partyVars>>

-----------------------------------------------------------------------------
(* Python str primitives over sequences of characters *)

UpperLetters == <<"A","B","C","D","E","F","G","H","I","J","K","L","M","N","O","P","Q","R","S","T","U","V","W","X","Y","Z">>
LowerLetters == <<"a","b","c","d","e","f","g","h","i","j","k","l","m","n","o","p","q","r","s","t","u","v","w","x","y","z">>
Digits == {"0","1","2","3","4","5","6","7","8","9"}

Range(f) == {f[i] : i \in DOMAIN f}

Min(S) == CHOOSE x \in S : \A y \in S : x <= y

Last(s) == s[Len(s)]

\* the elements of a set of integers in ascending order
RECURSIVE Ascending(_)
Ascending(S) == IF S = {} THEN <<>> ELSE <<Min(S)>> \o Ascending(S \ {Min(S)})

UpperSet == Range(UpperLetters)

\* str.lower() on the upper-case letters
LowerOf == [c \in UpperSet |->
               LowerLetters[CHOOSE i \in DOMAIN UpperLetters : UpperLetters[i] = c]]

\* str.lower() on one character
LowerChar(c) == IF c \in UpperSet THEN LowerOf[c] ELSE c

\* str.lower()
Lower(s) == [i \in 1..Len(s) |-> LowerChar(s[i])]

\* the class \w of re: letters, digits and the underscore
WordChars == Range(UpperLetters) \cup Range(LowerLetters) \cup Digits \cup {"_"}

IsWordChar(c) == c \in WordChars

\* the characters str.strip() and str.split() treat as whitespace
IsSpace(c) == c \in {" ", "\t", "\n", "\r"}

\* s[:n]
Take(s, n) == SubSeq(s, 1, IF n < Len(s) THEN n ELSE Len(s))

\* s.startswith(p)
StartsWith(s, p) == Len(p) <= Len(s) /\ SubSeq(s, 1, Len(p)) = p

\* sub occurs in s at position j
OccursAt(s, sub, j) ==
    /\ j + Len(sub) - 1 <= Len(s)
    /\ \A i \in 1..Len(sub) : s[j + i - 1] = sub[i]

\* the first position from j on at which sub occurs in s, 0 if none
RECURSIVE FindFrom(_, _, _)
FindFrom(s, sub, j) ==
    IF j + Len(sub) - 1 > Len(s) THEN 0
    ELSE IF OccursAt(s, sub, j) THEN j
    ELSE FindFrom(s, sub, j + 1)

\* s.find(sub) + 1: the first position at which sub occurs in s, 0 if none
Find(s, sub) == FindFrom(s, sub, 1)

\* sub in s
Contains(s, sub) == Find(s, sub) # 0

\* s.split(sep) for a non-empty separator
RECURSIVE Split(_, _)
Split(s, sep) ==
    LET j == Find(s, sep)
    IN  IF j = 0 THEN <<s>>
        ELSE <<SubSeq(s, 1, j - 1)>> \o Split(SubSeq(s, j + Len(sep), Len(s)), sep)

\* s.split(sep, 1)[0]
SplitFirst(s, sep) ==
    LET j == Find(s, sep) IN IF j = 0 THEN s ELSE SubSeq(s, 1, j - 1)

\* sep.join(parts)
RECURSIVE Join(_, _)
Join(parts, sep) ==
    IF parts = <<>> THEN <<>>
    ELSE IF Len(parts) = 1 THEN parts[1]
    ELSE parts[1] \o sep \o Join(Tail(parts), sep)

\* s.replace(old, new)
Replace(s, old, new) == Join(Split(s, old), new)

\* s.lstrip(), s.rstrip(), s.strip()
RECURSIVE LStrip(_)
LStrip(s) == IF s # <<>> /\ IsSpace(Head(s)) THEN LStrip(Tail(s)) ELSE s

RECURSIVE RStrip(_)
RStrip(s) == IF s # <<>> /\ IsSpace(Last(s)) THEN RStrip(SubSeq(s, 1, Len(s) - 1)) ELSE s

Strip(s) == RStrip(LStrip(s))

\* s.split(): the maximal runs of non-whitespace characters
RECURSIVE SplitWS(_)
SplitWS(s) ==
    IF s = <<>> THEN <<>>
    ELSE IF IsSpace(Head(s)) THEN SplitWS(Tail(s))
    ELSE LET stops == {j \in 1..Len(s) : IsSpace(s[j])}
             n == IF stops = {} THEN Len(s) ELSE Min(stops) - 1
         IN  <<SubSeq(s, 1, n)>> \o SplitWS(SubSeq(s, n + 1, Len(s)))

\* [x for x in l if len(x) > 0]
NonEmpty(l) == SelectSeq(l, LAMBDA x : Len(x) > 0)

\* every string over alphabet A of length at most n
Strings(A, n) == UNION {[1..k -> A] : k \in 0..n}

-----------------------------------------------------------------------------
(* format_parties, lines 25-40 *)

\* lines 34-35
strip_case_of(p) ==
    IF StartsWith(p, <<"C","A","S","E"," ","O","F"," ">>) THEN SubSeq(p, Len(<<"C","A","S","E"," ","O","F"," ">>) + 1, Len(p)) ELSE p

\* line 36: parties[-1] raises IndexError on the empty string
last_char_raises(p) == p = <<>>

\* lines 36-37
strip_parenthetical(p) ==
    IF Last(p) = ")" THEN Split(p, <<"(">>)[1] ELSE p

\* line 38
split_versus(p) == Split(p, <<" ","v","."," ">>)

\* line 39
strip_each(ps) == [n \in 1..Len(ps) |-> Strip(ps[n])]

\* lines 34-40: err is the exception raised, value the returned list
format_parties(p) ==
    LET body == strip_case_of(p)
    IN  IF last_char_raises(body) THEN [err |-> "IndexError", value |-> <<>>]
        ELSE [err |-> "none", value |-> strip_each(split_versus(strip_parenthetical(body)))]

-----------------------------------------------------------------------------
(* split_and_format_article *)

\* remove_incorrect_prefixes: re.match("^\W", art) drops the first character
remove_incorrect_prefixes(art) ==
    IF art # <<>> /\ ~IsWordChar(Head(art)) THEN Tail(art) ELSE art

\* the loop with the prefix test the wrong way round
RECURSIVE TokenizeLoop_Reversed(_, _)
TokenizeLoop_Reversed(parts, k) ==
    IF k > Len(parts) - 1 THEN <<>>
    ELSE (IF ~StartsWith(parts[k], parts[k + 1])
          THEN <<remove_incorrect_prefixes(parts[k])>> ELSE <<>>)
         \o TokenizeLoop_Reversed(parts, k + 1)

\* the loop over enumerate(parts[:-1]), from index k on
RECURSIVE TokenizeLoop(_, _)
TokenizeLoop(parts, k) ==
    IF k > Len(parts) - 1 THEN <<>>
    ELSE (IF ~StartsWith(parts[k + 1], parts[k])
          THEN <<remove_incorrect_prefixes(parts[k])>> ELSE <<>>)
         \o TokenizeLoop(parts, k + 1)

split_and_format_article(a) ==
    LET parts == Split(a, <<"+">>)
    IN  <<remove_incorrect_prefixes(Last(parts))>> \o TokenizeLoop(parts, 1)

-----------------------------------------------------------------------------
(* find_base_articles *)

\* the resolver without the protocol branch
find_base_article_NoProtocol(tok) == SplitFirst(Split(tok, <<"+">>)[1], <<"-">>)

\* one iteration of the loop of find_base_articles
find_base_article(tok) ==
    LET a == Split(tok, <<"+">>)[1]
    IN  IF ~Contains(Lower(a), <<"p">>)
        THEN SplitFirst(a, <<"-">>)
        ELSE LET segs == Split(a, <<"-">>)
             IN  Join(Take(segs, 2), <<"-">>)

find_base_articles(arts) == [k \in 1..Len(arts) |-> find_base_article(arts[k])]

-----------------------------------------------------------------------------
(* Python dict primitives: a dict is a function from its keys *)

\* d with d[k] = v
SetKey(d, k, v) == (k :> v) @@ d

\* d.update(e)
Update(d, e) == e @@ d

\* l[-1][k] = v for a non-empty list l of dicts
SetKeyOfLast(l, k, v) == [l EXCEPT ![Len(l)] = SetKey(l[Len(l)], k, v)]

\* [item for sublist in l for item in sublist]
RECURSIVE Flatten(_)
Flatten(l) == IF l = <<>> THEN <<>> ELSE Head(l) \o Flatten(Tail(l))

-----------------------------------------------------------------------------
(* merge_conclusion_elements *)

Underscore == <<"_">>

\* the key of lines 95-98
merge_key(e) ==
    IF "article" \in DOMAIN e /\ "base_article" \in DOMAIN e
    THEN e.article \o Underscore \o e.base_article \o Underscore \o e.element
    ELSE e.element

\* the loop of lines 94-101 from element k on; keys and vals are the keys and
\* the values of final_elements in insertion order
RECURSIVE MergeLoop(_, _, _, _)
MergeLoop(elements, k, keys, vals) ==
    IF k > Len(elements) THEN vals
    ELSE LET e == elements[k]
             key == merge_key(e)
             at == {j \in 1..Len(keys) : keys[j] = key}
         IN  IF at = {}
             THEN MergeLoop(elements, k + 1, Append(keys, key), Append(vals, Update(e, e)))
             ELSE LET j == CHOOSE j \in at : TRUE
                  IN  MergeLoop(elements, k + 1, keys,
                                [vals EXCEPT ![j] = Update(vals[j], e)])

merge_conclusion_elements(elements) == MergeLoop(elements, 1, <<>>, <<>>)

-----------------------------------------------------------------------------
(* get_element_type and format_conclusion_elements *)

get_element_type(l) ==
    IF StartsWith(l, <<"v","i","o","l","a","t","i","o","n">>) THEN "violation"
    ELSE IF StartsWith(l, <<"n","o","-","v","i","o","l","a","t","i","o","n">>) \/ StartsWith(l, <<"n","o"," ","v","i","o","l","a","t","i","o","n">>)
         THEN "no-violation"
         ELSE "other"

\* lines 135-142: the three replacements, in order
normalize_conjunctions(l) ==
    Replace(Replace(Replace(l, <<" ","a","n","d"," ","a","r","t","."," ">>, <<>>), <<" ","a","n","d"," ","o","f"," ">>, <<"+">>), <<" ","a","n","d"," ">>, <<"+">>)

\* the scan taking the word that starts with 'art' itself for the article
find_article_word_SameWord(l) ==
    LET b == SplitWS(l)
        hits == {j \in 1..Len(b) : StartsWith(b[j], <<"a","r","t">>)}
    IN  IF hits = {} THEN [err |-> "none", found |-> FALSE, art |-> <<>>]
        ELSE [err |-> "none", found |-> TRUE, art |-> b[Min(hits)]]

\* lines 144-151: the article string after the first word starting with 'art';
\* found = FALSE when no word starts with 'art' (art stays None)
find_article_word(l) ==
    LET b == SplitWS(l)
        hits == {j \in 1..Len(b) : StartsWith(b[j], <<"a","r","t">>)}
    IN  IF hits = {} THEN [err |-> "none", found |-> FALSE, art |-> <<>>]
        ELSE LET j == Min(hits)
                 a == Lower(b[j])
             IN  IF StartsWith(a, <<"a","r","t",".">>) /\ ~StartsWith(a, <<"a","r","t","."," ">>) /\ Len(b[j]) > 4
                 THEN [err |-> "none", found |-> TRUE, art |-> SubSeq(a, 5, Len(a))]
                 ELSE IF j + 1 > Len(b)
                      THEN [err |-> "IndexError", found |-> FALSE, art |-> <<>>]
                      ELSE [err |-> "none", found |-> TRUE, art |-> b[j + 1]]

\* lines 127-130: the token p{f2}-{f1} around 'protocol no.'
protocol_article(element) ==
    LET prot == Split(Lower(element), <<"p","r","o","t","o","c","o","l"," ","n","o",".">>)
        before == SplitWS(prot[1])
    IN  IF Len(before) < 2 \/ Len(prot) < 2 \/ SplitWS(prot[2]) = <<>>
        THEN [err |-> "IndexError", art |-> <<>>]
        ELSE [err |-> "none",
              art |-> <<"p">> \o SplitWS(prot[2])[1] \o <<"-">> \o before[Len(before) - 1]]

\* lines 162-167: one copy of the clause per article
article_items(clause, arts) ==
    LET bases == find_base_articles(arts)
    IN  [k \in 1..Len(arts) |->
            SetKey(SetKey(clause, "article", arts[k]), "base_article", bases[k])]

\* format_conclusion_elements(i, e, final_ccl) with e = final_ccl[i]: err, the
\* dict final_ccl[i] as the call leaves it, and the returned list to_append.
\* to_append.append(final_ccl[i]) of line 122 appends the dict itself, so the
\* 'other' entry shows every later assignment to final_ccl[i].
\* Lines 154-160 assign only locals that are not read again.
format_conclusion_elements(e) ==
    LET l == Strip(Lower(e.element))
        t == get_element_type(l)
        typed == SetKey(e, "type", t)
        has_protocol == Contains(Lower(e.element), <<"p","r","o","t","o","c","o","l">>)
        pa == protocol_article(e.element)
    IN  IF has_protocol
        THEN IF pa.err # "none"
             THEN [err |-> pa.err, clause |-> typed, out |-> <<>>]
             ELSE LET clause == SetKey(typed, "article", pa.art)
                      arts == split_and_format_article(pa.art)
                  IN  [err |-> "none", clause |-> clause,
                       out |-> (IF t = "other" THEN <<clause>> ELSE <<>>)
                               \o article_items(clause, arts)]
        ELSE IF t = "other"
             THEN [err |-> "none", clause |-> typed, out |-> <<typed>>]
             ELSE LET fa == find_article_word(normalize_conjunctions(l))
                  IN  IF fa.err # "none"
                      THEN [err |-> fa.err, clause |-> typed, out |-> <<>>]
                      ELSE [err |-> "none", clause |-> typed,
                            out |-> IF fa.found
                                    THEN article_items(typed, split_and_format_article(fa.art))
                                    ELSE <<>>]

-----------------------------------------------------------------------------
(* format_conclusion *)

\* lines 205-212: the candidate clauses
candidate_clauses(s) ==
    LET chunks == NonEmpty(Split(s, <<")">>))
    IN  NonEmpty(Flatten([k \in 1..Len(chunks) |->
                    IF ~Contains(chunks[k], <<"(">>)
                    THEN Split(chunks[k], <<";">>)
                    ELSE <<chunks[k]>>]))

\* l[-1]['mentions'] = b, an IndexError on an empty list
set_last_mentions(st, b) ==
    IF st.final_ccl = <<>> THEN [st EXCEPT !.err = "IndexError"]
    ELSE [st EXCEPT !.final_ccl = SetKeyOfLast(st.final_ccl, "mentions", b)]

\* lines 214-233: one iteration of the loop over the candidates; st holds err,
\* final_ccl and the local articles
structure_candidate(st, c) ==
    LET a == Split(c, <<"(">>)
        has_b == Len(a) > 1
        b == IF has_b THEN Split(a[2], <<";">>) ELSE <<>>
        pieces == Split(a[1], <<";">>)
        arts == NonEmpty([d \in 1..Len(pieces) |-> Strip(pieces[d])])
        bound == [st EXCEPT !.articles = arts, !.bound = TRUE]
    IN  IF Len(arts) = 0
        THEN IF has_b
             THEN IF bound.final_ccl = <<>> THEN [bound EXCEPT !.err = "IndexError"]
                  ELSE IF "mentions" \in DOMAIN Last(bound.final_ccl)
                       THEN [bound EXCEPT !.final_ccl =
                                SetKeyOfLast(bound.final_ccl, "mentions",
                                             Last(bound.final_ccl).mentions \o b)]
                       ELSE set_last_mentions(bound, b)
             ELSE bound
        ELSE LET last_article == IF ~StartsWith(Last(arts), <<";">>)
                                 THEN Last(arts) ELSE Tail(Last(arts))
                 conclusion == IF has_b
                               THEN [element |-> last_article, details |-> b]
                               ELSE [element |-> last_article]
             IN  IF Len(Strip(last_article)) = 0
                 THEN IF has_b THEN set_last_mentions(bound, b) ELSE bound
                 ELSE [bound EXCEPT !.final_ccl = Append(bound.final_ccl, conclusion)]

\* the loop of line 213, from candidate k on; an exception ends it
RECURSIVE StructureLoop(_, _, _)
StructureLoop(st, art, k) ==
    IF k > Len(art) \/ st.err # "none" THEN st
    ELSE StructureLoop(structure_candidate(st, art[k]), art, k + 1)

\* lines 234-237, after the loop: the earlier semicolon-pieces of the last
\* candidate; articles is unbound when the loop body never ran
append_leftovers(st) ==
    IF st.err # "none" THEN st
    ELSE IF ~st.bound THEN [st EXCEPT !.err = "UnboundLocalError"]
    ELSE IF Len(st.articles) > 1
         THEN [st EXCEPT !.final_ccl =
                  st.final_ccl
                  \o [k \in 1..(Len(st.articles) - 1) |-> [element |-> st.articles[k]]]]
         ELSE st

\* lines 204-237
structure_clauses(art) ==
    append_leftovers(
        StructureLoop([err |-> "none", final_ccl |-> <<>>, articles |-> <<>>, bound |-> FALSE],
                      art, 1))

\* lines 239-241 from clause i on; cs is final_ccl, out is to_append
RECURSIVE ClassifyLoop(_, _, _, _)
ClassifyLoop(err, cs, out, i) ==
    IF i > Len(cs) \/ err # "none" THEN [err |-> err, final_ccl |-> cs, to_append |-> out]
    ELSE LET r == format_conclusion_elements(cs[i])
         IN  ClassifyLoop(r.err, [cs EXCEPT ![i] = r.clause], out \o r.out, i + 1)

classify_clauses(cs) == ClassifyLoop("none", cs, <<>>, 1)

\* format_conclusion(ccl): err and the returned list
format_conclusion(s) ==
    LET sb == structure_clauses(candidate_clauses(s))
        sc == classify_clauses(sb.final_ccl)
    IN  IF sb.err # "none" THEN [err |-> sb.err, value |-> <<>>]
        ELSE IF sc.err # "none" THEN [err |-> sc.err, value |-> <<>>]
        ELSE [err |-> "none", value |-> merge_conclusion_elements(sc.to_append)]

-----------------------------------------------------------------------------
(* Specification SpecTok: the Article Tokenizer followed by the Base-Article *)
(* Resolver, as format_conclusion_elements and format_article chain them.    *)

MaxArtLen == 4

ArtAlphabet == {"1", "3", "p", "P", "-", "+"}

\* the examples of the documentation
DocArticles == {<<"3","+","1","3">>, <<"p","1","-","1","+","3">>, <<"3","+","3","-","1">>, <<"p","1","-","1","-","2">>, <<"3","-","1">>, <<"1","0">>, <<"p","1","-","1">>}

ArticleInputs == Strings(ArtAlphabet, MaxArtLen) \cup DocArticles

TokIdle == article = <<>> /\ articles = <<>> /\ base_articles = <<>>

ParseIdle ==
    /\ ccl = <<>>
    /\ candidates = <<>>
    /\ final_ccl = <<>>
    /\ to_append = <<>>
    /\ result = <<>>
    /\ raised = "none"

FilterIdle == raw_cases = <<>> /\ cases = <<>> /\ remaining = <<>>

PartIdle ==
    /\ norm_cases = <<>>
    /\ filtered_cases = <<>>
    /\ outcome_keys = <<>>
    /\ outcomes = <<>>
    /\ cases_per_articles = <<>>
    /\ multilabel_cases_unique = <<>>
    /\ multiclass_cases = <<>>

PartyIdle == docname = <<>> /\ parties = <<>>

InitTok ==
    /\ pc = "tokenize"
    /\ article \in ArticleInputs
    /\ articles = <<>>
    /\ base_articles = <<>>
    /\ ParseIdle
    /\ FilterIdle
    /\ PartIdle
    /\ PartyIdle

Tokenize ==
    /\ pc = "tokenize"
    /\ articles' = split_and_format_article(article)
    /\ pc' = "resolve"
    /\ UNCHANGED <<article, base_articles, parseVars, filterVars, partVars, partyVars>>

Resolve ==
    /\ pc = "resolve"
    /\ base_articles' = find_base_articles(articles)
    /\ pc' = "resolved"
    /\ UNCHANGED <<article, articles, parseVars, filterVars, partVars, partyVars>>

NextTok == Tokenize \/ Resolve

SpecTok == InitTok /\ [][NextTok]_vars

-----------------------------------------------------------------------------
(* Specification SpecParse: format_conclusion on one narrative, stage by     *)
(* stage.  A narrative is a concatenation of at most MaxFrags fragments, or  *)
(* a documented example.                                                     *)

MaxFrags == 3

Fragments == {
    <<"V","i","o","l","a","t","i","o","n"," ","o","f"," ","A","r","t","."," ","3">>,
    <<"N","o"," ","v","i","o","l","a","t","i","o","n">>,
    <<"I","n","a","d","m","i","s","s","i","b","l","e">>,
    <<";">>,
    <<" ","(","x",")",";">>,
    <<"(">>,
    <<")">>,
    <<" ","A","r","t","."," ","1"," ","o","f"," ","P","r","o","t","o","c","o","l"," ","N","o","."," ","1">>,
    <<" ","o","f"," ","P","r","o","t","o","c","o","l"," ","N","o","."," ","1"," ","A","r","t","i","c","l","e"," ","2">>,
    <<" ","p","r","o","t","o","c","o","l">>,
    <<" ","A","r","t",".">>,
    <<"3","_","3","_","V","i","o","l","a","t","i","o","n"," ","o","f"," ","A","r","t","."," ","3",";">> }

DocNarrative ==
    <<"V","i","o","l","a","t","i","o","n"," ","o","f"," ","A","r","t","i","c","l","e"," ","3"," ","-"," ","P","r","o","h","i","b","i","t","i","o","n"," ","o","f"," ","t","o","r","t","u","r","e"," ","(","S","u","b","s","t","a","n","t","i","v","e"," ","a","s","p","e","c","t",")",";"," ","V","i","o","l","a","t","i","o","n"," ","o","f"," ","A","r","t","i","c","l","e"," ","1","3"," ","-"," ","R","i","g","h","t"," ","t","o"," ","a","n"," ","e","f","f","e","c","t","i","v","e"," ","r","e","m","e","d","y">>

\* a narrative whose first candidate holds two clauses before its '(' and is
\* followed by another candidate
StageBNarrative ==
    <<"N","o"," ","v","i","o","l","a","t","i","o","n"," ","o","f"," ","A","r","t","."," ","5",";"," ","V","i","o","l","a","t","i","o","n"," ","o","f"," ","A","r","t","."," ","3"," ","(","x",")",";"," ","V","i","o","l","a","t","i","o","n"," ","o","f"," ","A","r","t","."," ","6">>

Narratives ==
    {Flatten(fs) : fs \in Strings(Fragments, MaxFrags)} \cup {DocNarrative, StageBNarrative}

InitParse ==
    /\ pc = "segment"
    /\ ccl \in Narratives
    /\ candidates = <<>>
    /\ final_ccl = <<>>
    /\ to_append = <<>>
    /\ result = <<>>
    /\ raised = "none"
    /\ TokIdle
    /\ FilterIdle
    /\ PartIdle
    /\ PartyIdle

\* Stage A, lines 205-212
Segment ==
    /\ pc = "segment"
    /\ candidates' = candidate_clauses(ccl)
    /\ pc' = "structure"
    /\ UNCHANGED <<ccl, final_ccl, to_append, result, raised, tokVars, filterVars, partVars, partyVars>>

\* Stage B, lines 213-237
Structure ==
    /\ pc = "structure"
    /\ LET st == structure_clauses(candidates)
       IN  /\ final_ccl' = st.final_ccl
           /\ raised' = st.err
           /\ pc' = IF st.err = "none" THEN "classify" ELSE "raised"
    /\ UNCHANGED <<ccl, candidates, to_append, result, tokVars, filterVars, partVars, partyVars>>

\* Stage C, lines 239-241
Classify ==
    /\ pc = "classify"
    /\ LET sc == classify_clauses(final_ccl)
       IN  /\ final_ccl' = sc.final_ccl
           /\ to_append' = sc.to_append
           /\ raised' = sc.err
           /\ pc' = IF sc.err = "none" THEN "merge" ELSE "raised"
    /\ UNCHANGED <<ccl, candidates, result, tokVars, filterVars, partVars, partyVars>>

\* Stage D, lines 243-244
Merge ==
    /\ pc = "merge"
    /\ result' = merge_conclusion_elements(to_append)
    /\ pc' = "parsed"
    /\ UNCHANGED <<ccl, candidates, final_ccl, to_append, raised, tokVars, filterVars, partVars, partyVars>>

NextParse == Segment \/ Structure \/ Classify \/ Merge

SpecParse == InitParse /\ [][NextParse]_vars

-----------------------------------------------------------------------------
(* filter_cases *)

\* line 364
is_english(c) == c.languageisocode = "ENG"

\* line 367
is_judgment(c) == c.doctype = "HEJUD"

\* keeping a conclusion only for the capitalised words
has_clear_conclusion_Capitalised(c) ==
    \/ Contains(c.conclusion, <<"N","o","-","v","i","o","l","a","t","i","o","n">>)
    \/ Contains(c.conclusion, <<"N","o"," ","v","i","o","l","a","t","i","o","n">>)
    \/ Contains(c.conclusion, <<"V","i","o","l","a","t","i","o","n">>)

\* lines 373-375
has_clear_conclusion(c) ==
    \/ Contains(c.conclusion, <<"N","o","-","v","i","o","l","a","t","i","o","n">>)
    \/ Contains(c.conclusion, <<"N","o"," ","v","i","o","l","a","t","i","o","n">>)
    \/ Contains(c.conclusion, <<"V","i","o","l","a","t","i","o","n">>)
    \/ Contains(c.conclusion, <<"v","i","o","l","a","t","i","o","n">>)

\* line 378
HardToProcess == {"001-154354", "001-108395", "001-79411"}

is_processable(c) == c.itemid \notin HardToProcess

-----------------------------------------------------------------------------
(* Specification SpecFilter: filter_cases on a list of at most MaxCases raw  *)
(* records, one filter at a time.                                            *)

MaxCases == 3

RawRecords == {
    [languageisocode |-> "ENG", doctype |-> "HEJUD", itemid |-> "001-57574",
     conclusion |-> <<"V","i","o","l","a","t","i","o","n"," ","o","f"," ","A","r","t","."," ","3">>],
    [languageisocode |-> "ENG", doctype |-> "HEJUD", itemid |-> "001-61886",
     conclusion |-> <<"N","o","n","-","p","e","c","u","n","i","a","r","y"," ","d","a","m","a","g","e"," ","-"," ","f","i","n","d","i","n","g"," ","o","f"," ","v","i","o","l","a","t","i","o","n"," ","s","u","f","f","i","c","i","e","n","t">>],
    [languageisocode |-> "FRE", doctype |-> "HEJUD", itemid |-> "001-62025",
     conclusion |-> <<"V","i","o","l","a","t","i","o","n"," ","d","e"," ","l","'","A","r","t","."," ","3">>],
    [languageisocode |-> "ENG", doctype |-> "HEDEC", itemid |-> "001-4526",
     conclusion |-> <<"N","o"," ","v","i","o","l","a","t","i","o","n"," ","o","f"," ","A","r","t","."," ","6">>],
    [languageisocode |-> "ENG", doctype |-> "HEJUD", itemid |-> "001-58001",
     conclusion |-> <<"S","t","r","u","c","k"," ","o","u","t"," ","o","f"," ","t","h","e"," ","l","i","s","t">>],
    [languageisocode |-> "ENG", doctype |-> "HEJUD", itemid |-> "001-58002",
     conclusion |-> <<"V","I","O","L","A","T","I","O","N"," ","O","F"," ","A","R","T","."," ","3">>],
    [languageisocode |-> "ENG", doctype |-> "HEJUD", itemid |-> "001-154354",
     conclusion |-> <<"V","i","o","l","a","t","i","o","n"," ","o","f"," ","A","r","t","."," ","3">>],
    [languageisocode |-> "ENG", doctype |-> "HEJUD", itemid |-> "001-108395",
     conclusion |-> <<"N","o","-","v","i","o","l","a","t","i","o","n"," ","o","f"," ","A","r","t","."," ","6">>],
    [languageisocode |-> "ENG", doctype |-> "HEJUD", itemid |-> "001-79411",
     conclusion |-> <<"V","i","o","l","a","t","i","o","n"," ","o","f"," ","A","r","t","."," ","3">>],
    [languageisocode |-> "FRE", doctype |-> "HEDEC", itemid |-> "001-79411",
     conclusion |-> <<"I","r","r","e","c","e","v","a","b","l","e">>] }

InitFilter ==
    /\ pc = "count"
    /\ raw_cases \in Strings(RawRecords, MaxCases)
    /\ cases = raw_cases
    /\ remaining = <<>>
    /\ TokIdle
    /\ ParseIdle
    /\ PartIdle
    /\ PartyIdle

\* lines 358-362: exit(1) on an empty list
CountCases ==
    /\ pc = "count"
    /\ pc' = IF Len(cases) = 0 THEN "exit" ELSE "language"
    /\ UNCHANGED <<filterVars, tokVars, parseVars, partVars, partyVars>>

\* lines 363-365
FilterLanguage ==
    /\ pc = "language"
    /\ cases' = SelectSeq(cases, is_english)
    /\ remaining' = Append(remaining, cases')
    /\ pc' = "doctype"
    /\ UNCHANGED <<raw_cases, tokVars, parseVars, partVars, partyVars>>

\* lines 366-368
FilterDoctype ==
    /\ pc = "doctype"
    /\ cases' = SelectSeq(cases, is_judgment)
    /\ remaining' = Append(remaining, cases')
    /\ pc' = "conclusion"
    /\ UNCHANGED <<raw_cases, tokVars, parseVars, partVars, partyVars>>

\* lines 372-376
FilterConclusion ==
    /\ pc = "conclusion"
    /\ cases' = SelectSeq(cases, has_clear_conclusion)
    /\ remaining' = Append(remaining, cases')
    /\ pc' = "denylist"
    /\ UNCHANGED <<raw_cases, tokVars, parseVars, partVars, partyVars>>

\* lines 377-382
FilterDenylist ==
    /\ pc = "denylist"
    /\ cases' = SelectSeq(cases, is_processable)
    /\ remaining' = Append(remaining, cases')
    /\ pc' = "filtered"
    /\ UNCHANGED <<raw_cases, tokVars, parseVars, partVars, partyVars>>

NextFilter ==
    CountCases \/ FilterLanguage \/ FilterDoctype \/ FilterConclusion \/ FilterDenylist

SpecFilter == InitFilter /\ [][NextFilter]_vars

-----------------------------------------------------------------------------
(* run, lines 468-563: the dataset partitioner.  The lists of the code hold    *)
(* references to the case dicts; here they hold positions in norm_cases.       *)

\* int(s) and str(n) on the digits the labels end with
IntOf(s) == IF s = <<"1">> THEN 1 ELSE 0
StrOf(n) == IF n = 1 THEN <<"1">> ELSE <<"0">>
Abs(n) == IF n < 0 THEN -n ELSE n

\* the condition of lines 472-473 (and 488-489)
is_labelled(e) == e.type \in {"violation", "no-violation"} /\ "article" \in DOMAIN e

\* lines 470-477: the set of labels '{article}:{1|0}' of a case
class_labels(c) ==
    {c.conclusion[k].article \o <<":">> \o (IF c.conclusion[k].type = "violation" THEN <<"1">> ELSE <<"0">>) :
        k \in {k \in 1..Len(c.conclusion) : is_labelled(c.conclusion[k])}}

\* line 479: e.split(':')[0] + ':' + str(abs(1 - int(e.split(':')[-1])))
opposite_label(e) ==
    Split(e, <<":">>)[1] \o <<":">> \o StrOf(Abs(1 - IntOf(Last(Split(e, <<":">>)))))

\* lines 478-479
opposed_classes(classes) == \E e \in classes : opposite_label(e) \in classes

\* line 480
is_outcome_consistent(c) ==
    LET classes == class_labels(c)
    IN  Cardinality(classes) > 0 /\ ~opposed_classes(classes)

\* lines 468-481: the positions of the outcome-consistent cases, in order
select_consistent(cs) == Ascending({i \in 1..Len(cs) : is_outcome_consistent(cs[i])})

\* the (case, element) pairs the loops of lines 485-489 visit, in order
labelled_visits(cs, filtered) ==
    Flatten([n \in 1..Len(filtered) |->
        LET ccl_n == cs[filtered[n]].conclusion
            ks == Ascending({k \in 1..Len(ccl_n) : is_labelled(ccl_n[k])})
        IN  [m \in 1..Len(ks) |-> [case |-> filtered[n], e |-> ccl_n[ks[m]]]]])

\* lines 490-500 for the visits from v on; st holds outcome_keys, outcomes and
\* cases_per_articles
RECURSIVE GroupLoop(_, _, _)
GroupLoop(visits, v, st) ==
    IF v > Len(visits) THEN st
    ELSE LET a == visits[v].e.article
             ty == visits[v].e.type
             fresh == a \notin DOMAIN st.outcomes
             old == IF fresh
                    THEN ("violation" :> 0) @@ ("no-violation" :> 0) @@ ("total" :> 0)
                    ELSE st.outcomes[a]
             new == [old EXCEPT ![ty] = @ + 1, !["total"] = @ + 1]
             group == IF a \in DOMAIN st.cases_per_articles
                      THEN st.cases_per_articles[a] ELSE <<>>
         IN  GroupLoop(visits, v + 1,
                [outcome_keys |-> IF fresh THEN Append(st.outcome_keys, a) ELSE st.outcome_keys,
                 outcomes |-> SetKey(st.outcomes, a, new),
                 cases_per_articles |->
                     SetKey(st.cases_per_articles, a, Append(group, visits[v].case))])

\* lines 483-500
group_by_article(cs, filtered) ==
    GroupLoop(labelled_visits(cs, filtered), 1,
              [outcome_keys |-> <<>>, outcomes |-> <<>>, cases_per_articles |-> <<>>])

\* the loop of lines 529-532 without the discard of line 532
RECURSIVE UniqueLoop_NoDiscard(_, _, _, _)
UniqueLoop_NoDiscard(cs, ml, n, index) ==
    IF n > Len(ml) THEN <<>>
    ELSE IF cs[ml[n]].itemid \in index
         THEN <<ml[n]>> \o UniqueLoop_NoDiscard(cs, ml, n + 1, index)
         ELSE UniqueLoop_NoDiscard(cs, ml, n + 1, index)

\* lines 529-532 from position n of multilabel_cases on; index is multilabel_index
RECURSIVE UniqueLoop(_, _, _, _)
UniqueLoop(cs, ml, n, index) ==
    IF n > Len(ml) THEN <<>>
    ELSE IF cs[ml[n]].itemid \in index
         THEN <<ml[n]>> \o UniqueLoop(cs, ml, n + 1, index \ {cs[ml[n]].itemid})
         ELSE UniqueLoop(cs, ml, n + 1, index)

\* lines 503-532
multilabel_view(cs, keys, groups) ==
    LET multilabel_cases == Flatten([n \in 1..Len(keys) |-> groups[keys[n]]])
        multilabel_index == {cs[multilabel_cases[n]].itemid : n \in 1..Len(multilabel_cases)}
    IN  UniqueLoop(cs, multilabel_cases, 1, multilabel_index)

\* line 539: the keys of outcomes in ascending order of total, ties in
\* insertion order (sorted is stable)
RECURSIVE sorted_outcomes(_, _)
sorted_outcomes(keys, outs) ==
    IF keys = <<>> THEN <<>>
    ELSE LET least == Min({outs[keys[n]].total : n \in 1..Len(keys)})
             n0 == Min({n \in 1..Len(keys) : outs[keys[n]].total = least})
         IN  <<keys[n0]>>
             \o sorted_outcomes(SubSeq(keys, 1, n0 - 1) \o SubSeq(keys, n0 + 1, Len(keys)), outs)

\* lines 542-560 without the test of line 544 on the number of articles
multiclass_visit_NoSpanTest(st, c, k) ==
    LET dict == st.cases[c]
        hits == {n \in 1..Len(dict.conclusion) :
                    "article" \in DOMAIN dict.conclusion[n] /\ dict.conclusion[n].article = k}
        marked == IF hits = {} THEN dict
                  ELSE SetKey(dict, "mc_conclusion", <<dict.conclusion[Min(hits)]>>)
    IN  IF dict.itemid \in st.index THEN st
        ELSE IF "mc_conclusion" \in DOMAIN marked
             THEN [cases |-> [st.cases EXCEPT ![c] = marked],
                   index |-> st.index \cup {dict.itemid},
                   view |-> Append(st.view, c)]
             ELSE st

\* lines 542-560 for one case c of the group of article k; st holds the cases,
\* multiclass_index (the itemids assigned) and multiclass_cases
multiclass_visit(st, c, k) ==
    LET dict == st.cases[c]
        nb_datasets == {dict.conclusion[n].article :
                           n \in {n \in 1..Len(dict.conclusion) :
                                     "article" \in DOMAIN dict.conclusion[n]}}
        hits == {n \in 1..Len(dict.conclusion) :
                    "article" \in DOMAIN dict.conclusion[n] /\ dict.conclusion[n].article = k}
        marked == IF hits = {} THEN dict
                  ELSE SetKey(dict, "mc_conclusion", <<dict.conclusion[Min(hits)]>>)
    IN  IF dict.itemid \in st.index THEN st
        ELSE IF Cardinality(nb_datasets) # 1 THEN st
        ELSE IF "mc_conclusion" \in DOMAIN marked
             THEN [cases |-> [st.cases EXCEPT ![c] = marked],
                   index |-> st.index \cup {dict.itemid},
                   view |-> Append(st.view, c)]
             ELSE st

\* lines 540-560: the visits (article, case) in the order of the two loops
RECURSIVE MulticlassLoop(_, _, _)
MulticlassLoop(visits, v, st) ==
    IF v > Len(visits) THEN st
    ELSE MulticlassLoop(visits, v + 1, multiclass_visit(st, visits[v].case, visits[v].k))

\* lines 537-560
multiclass_view(cs, keys, outs, groups) ==
    LET order == sorted_outcomes(keys, outs)
        visits == Flatten([n \in 1..Len(order) |->
                     [m \in 1..Len(groups[order[n]]) |->
                         [k |-> order[n], case |-> groups[order[n]][m]]]])
    IN  MulticlassLoop(visits, 1, [cases |-> cs, index |-> {}, view |-> <<>>])

-----------------------------------------------------------------------------
(* Specification SpecPart: the partitioner on at most MaxPartCases normalized  *)
(* cases, whose conclusions are what format_conclusion returns on a narrative.  *)

MaxPartCases == 2

PartNarratives == {
    <<"V","i","o","l","a","t","i","o","n"," ","o","f"," ","A","r","t","."," ","3">>,
    <<"N","o"," ","v","i","o","l","a","t","i","o","n"," ","o","f"," ","A","r","t","."," ","5">>,
    <<"V","i","o","l","a","t","i","o","n"," ","o","f"," ","A","r","t","."," ","3",";","N","o"," ","v","i","o","l","a","t","i","o","n"," ","o","f"," ","A","r","t","."," ","3">>,
    <<"V","i","o","l","a","t","i","o","n"," ","o","f"," ","A","r","t","."," ","3",";","N","o"," ","v","i","o","l","a","t","i","o","n"," ","o","f"," ","A","r","t","."," ","5">>,
    <<"V","i","o","l","a","t","i","o","n"," ","o","f"," ","A","r","t","."," ","3"," ","-"," ","a",";","V","i","o","l","a","t","i","o","n"," ","o","f"," ","A","r","t","."," ","3"," ","-"," ","b">>,
    <<"V","i","o","l","a","t","i","o","n"," ","o","f"," ","A","r","t","."," ","6",":"," ","a",";","N","o"," ","v","i","o","l","a","t","i","o","n"," ","o","f"," ","A","r","t","."," ","6",":"," ","b">>,
    <<"V","i","o","l","a","t","i","o","n"," ","o","f"," ","A","r","t","."," ","3",";","I","n","a","d","m","i","s","s","i","b","l","e"," ","A","r","t","."," ","1"," ","o","f"," ","P","r","o","t","o","c","o","l"," ","N","o","."," ","1">>,
    <<"I","n","a","d","m","i","s","s","i","b","l","e">> }

PartItemIds == {"001-57574", "001-61886"}

NormalizedCases ==
    {[itemid |-> id, conclusion |-> format_conclusion(n).value] :
        id \in PartItemIds, n \in PartNarratives}

InitPart ==
    /\ pc = "select"
    /\ norm_cases \in Strings(NormalizedCases, MaxPartCases) \ {<<>>}
    /\ filtered_cases = <<>>
    /\ outcome_keys = <<>>
    /\ outcomes = <<>>
    /\ cases_per_articles = <<>>
    /\ multilabel_cases_unique = <<>>
    /\ multiclass_cases = <<>>
    /\ TokIdle
    /\ ParseIdle
    /\ FilterIdle
    /\ PartyIdle

\* lines 468-481
SelectConsistent ==
    /\ pc = "select"
    /\ filtered_cases' = select_consistent(norm_cases)
    /\ pc' = "group"
    /\ UNCHANGED <<norm_cases, outcome_keys, outcomes, cases_per_articles,
                   multilabel_cases_unique, multiclass_cases, tokVars, parseVars, filterVars, partyVars>>

\* lines 483-500
GroupByArticle ==
    /\ pc = "group"
    /\ LET st == group_by_article(norm_cases, filtered_cases)
       IN  /\ outcome_keys' = st.outcome_keys
           /\ outcomes' = st.outcomes
           /\ cases_per_articles' = st.cases_per_articles
    /\ pc' = "multilabel"
    /\ UNCHANGED <<norm_cases, filtered_cases, multilabel_cases_unique, multiclass_cases,
                   tokVars, parseVars, filterVars, partyVars>>

\* lines 502-536
BuildMultilabel ==
    /\ pc = "multilabel"
    /\ multilabel_cases_unique' = multilabel_view(norm_cases, outcome_keys, cases_per_articles)
    /\ pc' = "multiclass"
    /\ UNCHANGED <<norm_cases, filtered_cases, outcome_keys, outcomes, cases_per_articles,
                   multiclass_cases, tokVars, parseVars, filterVars, partyVars>>

\* lines 537-564
BuildMulticlass ==
    /\ pc = "multiclass"
    /\ LET st == multiclass_view(norm_cases, outcome_keys, outcomes, cases_per_articles)
       IN  /\ norm_cases' = st.cases
           /\ multiclass_cases' = st.view
    /\ pc' = "partitioned"
    /\ UNCHANGED <<filtered_cases, outcome_keys, outcomes, cases_per_articles,
                   multilabel_cases_unique, tokVars, parseVars, filterVars, partyVars>>

NextPart == SelectConsistent \/ GroupByArticle \/ BuildMultilabel \/ BuildMulticlass

SpecPart == InitPart /\ [][NextPart]_vars

-----------------------------------------------------------------------------
(* Specification SpecParties: format_parties on the case titles made of at     *)
(* most MaxTitleFrags fragments, one action per line of the function.          *)

MaxTitleFrags == 3

TitleFragments == {
    <<"C","A","S","E"," ","O","F"," ">>,
    <<"C","A","S","E"," ","O","F"," ","A">>,
    <<" ","v","."," ","B">>,
    <<" ","(","N","o","."," ","2",")">>,
    <<" ">>,
    <<"(">>,
    <<")">> }

Titles == {Flatten(fs) : fs \in Strings(TitleFragments, MaxTitleFrags)}

InitParties ==
    /\ pc = "prefix"
    /\ docname \in Titles
    /\ parties = docname
    /\ TokIdle
    /\ ParseIdle
    /\ FilterIdle
    /\ PartIdle

\* lines 34-35
StripPrefix ==
    /\ pc = "prefix"
    /\ parties' = strip_case_of(parties)
    /\ pc' = "suffix"
    /\ UNCHANGED <<docname, tokVars, parseVars, filterVars, partVars>>

\* lines 36-37
StripSuffix ==
    /\ pc = "suffix"
    /\ IF last_char_raises(parties)
       THEN pc' = "IndexError" /\ UNCHANGED parties
       ELSE pc' = "split" /\ parties' = strip_parenthetical(parties)
    /\ UNCHANGED <<docname, tokVars, parseVars, filterVars, partVars>>

\* line 38
SplitVersus ==
    /\ pc = "split"
    /\ parties' = split_versus(parties)
    /\ pc' = "strip"
    /\ UNCHANGED <<docname, tokVars, parseVars, filterVars, partVars>>

\* lines 39-40
StripEach ==
    /\ pc = "strip"
    /\ parties' = strip_each(parties)
    /\ pc' = "formatted"
    /\ UNCHANGED <<docname, tokVars, parseVars, filterVars, partVars>>

NextParties == StripPrefix \/ StripSuffix \/ SplitVersus \/ StripEach

SpecParties == InitParties /\ [][NextParties]_vars

-----------------------------------------------------------------------------
(* Properties of the conclusion parser *)

\* C1: format_conclusion returns a list for every narrative and never raises.
C1_ParserNeverRaises == raised = "none" /\ pc # "raised"

\* C2: no element of type 'other' in the parser's output carries an article or
\* a base_article.
C2_OtherCarriesNoArticle ==
    pc = "parsed" =>
        \A k \in 1..Len(result) :
            result[k].type = "other" =>
                "article" \notin DOMAIN result[k] /\ "base_article" \notin DOMAIN result[k]

\* C3: the documented narrative parses, without an exception, to exactly two
\* violation elements with articles 3 and 13 (base articles 3 and 13), the first
\* with details ['Substantive aspect'] and no mentions, the second with neither.
C3_DocumentedExample ==
    ccl = DocNarrative =>
        /\ raised = "none"
        /\ pc = "parsed" =>
             result = <<
                [element |-> <<"V","i","o","l","a","t","i","o","n"," ","o","f"," ","A","r","t","i","c","l","e"," ","3"," ","-"," ","P","r","o","h","i","b","i","t","i","o","n"," ","o","f"," ","t","o","r","t","u","r","e">>,
                 details |-> <<<<"S","u","b","s","t","a","n","t","i","v","e"," ","a","s","p","e","c","t">>>>,
                 type |-> "violation",
                 article |-> <<"3">>,
                 base_article |-> <<"3">>],
                [element |-> <<"V","i","o","l","a","t","i","o","n"," ","o","f"," ","A","r","t","i","c","l","e"," ","1","3"," ","-"," ","R","i","g","h","t"," ","t","o"," ","a","n"," ","e","f","f","e","c","t","i","v","e"," ","r","e","m","e","d","y">>,
                 type |-> "violation",
                 article |-> <<"1","3">>,
                 base_article |-> <<"1","3">>] >>

\* C3 witness: the documented narrative was parsed to two elements
C3_Witness ==
    /\ pc = "parsed"
    /\ ccl = DocNarrative
    /\ Len(result) = 2
    /\ DOMAIN result[1] = {"element", "details", "type", "article", "base_article"}

\* the output holds an element of clause el with article token and base tok
EmitsToken(el, tok) ==
    \E k \in 1..Len(result) :
        /\ result[k].element = el
        /\ "article" \in DOMAIN result[k] /\ result[k].article = tok
        /\ "base_article" \in DOMAIN result[k] /\ result[k].base_article = tok

\* s.endswith(suffix)
EndsWith(s, suffix) ==
    Len(suffix) <= Len(s) /\ SubSeq(s, Len(s) - Len(suffix) + 1, Len(s)) = suffix

\* the clause mentions a protocol once
OneProtocol(el) == Len(Split(Lower(el), <<"p","r","o","t","o","c","o","l">>)) = 2

\* the clause reads '... Art. 1 of Protocol No. 1'
NamesArticle1OfProtocol1(el) ==
    OneProtocol(el) /\ EndsWith(Lower(el), <<" ","a","r","t","."," ","1"," ","o","f"," ","p","r","o","t","o","c","o","l"," ","n","o","."," ","1">>)

\* the clause reads '... of Protocol No. 1 Article 2' and names no other article
NamesProtocol1Article2(el) ==
    /\ OneProtocol(el)
    /\ EndsWith(Lower(el), <<" ","o","f"," ","p","r","o","t","o","c","o","l"," ","n","o","."," ","1"," ","a","r","t","i","c","l","e"," ","2">>)
    /\ ~Contains(Lower(el), <<"a","r","t",".">>)

\* C4: a violation or no-violation clause naming article A of protocol P around
\* 'protocol no.' is emitted with article token pP-A and base article pP-A, in
\* the form 'Article 1 of Protocol No. 1' and in the form 'Protocol No. 1
\* Article 2'.
C4_ProtocolArticleEncoding ==
    pc = "parsed" =>
        \A i \in 1..Len(final_ccl) :
            final_ccl[i].type \in {"violation", "no-violation"} =>
                /\ NamesArticle1OfProtocol1(final_ccl[i].element)
                      => EmitsToken(final_ccl[i].element, <<"p","1","-","1">>)
                /\ NamesProtocol1Article2(final_ccl[i].element)
                      => EmitsToken(final_ccl[i].element, <<"p","1","-","2">>)

\* the merge key of the data model: (article, base_article, element) when both
\* article and base_article are present, element alone otherwise
TupleKey(e) ==
    IF "article" \in DOMAIN e /\ "base_article" \in DOMAIN e
    THEN <<e.article, e.base_article, e.element>>
    ELSE <<e.element>>

\* the positions of to_append at which a key occurs for the first time
FirstSeen ==
    Ascending({k \in 1..Len(to_append) :
                  \A j \in 1..(k - 1) : TupleKey(to_append[j]) # TupleKey(to_append[k])})

\* the inputs of the merge that carry key ky and field f
Carriers(ky, f) ==
    {j \in 1..Len(to_append) : TupleKey(to_append[j]) = ky /\ f \in DOMAIN to_append[j]}

\* C7: after the merge no two output elements share a merge key, the output
\* lists one element per key in the order the keys were first seen, and each
\* field of an output element holds the value of the last input element with
\* that key that carried the field.
C7_MergeByKey ==
    pc = "parsed" =>
        /\ \A i, j \in 1..Len(result) :
              i # j => TupleKey(result[i]) # TupleKey(result[j])
        /\ Len(result) = Len(FirstSeen)
        /\ \A k \in 1..Len(result) :
              k <= Len(FirstSeen) =>
                 LET ky == TupleKey(to_append[FirstSeen[k]])
                 IN  /\ TupleKey(result[k]) = ky
                     /\ DOMAIN result[k] =
                           UNION {DOMAIN to_append[j] :
                                     j \in {j \in 1..Len(to_append) : TupleKey(to_append[j]) = ky}}
                     /\ \A f \in DOMAIN result[k] :
                           /\ Carriers(ky, f) # {}
                           /\ result[k][f] =
                                 to_append[CHOOSE j \in Carriers(ky, f) :
                                              \A h \in Carriers(ky, f) : h <= j][f]


\* the stripped non-empty semicolon-pieces of the portion of candidate c before
\* its first '('
PiecesBeforeParen(c) ==
    LET pieces == Split(Split(c, <<"(">>)[1], <<";">>)
    IN  NonEmpty([d \in 1..Len(pieces) |-> Strip(pieces[d])])

\* the pieces of candidate c that precede its last piece
EarlierPieces(c) ==
    {PiecesBeforeParen(c)[k] : k \in 1..(Len(PiecesBeforeParen(c)) - 1)}

\* C13: for every candidate clause of the narrative, the last one or not, each
\* non-empty semicolon-piece before the last piece of the portion before '('
\* is the element of some entry of the list the parser returns.
C13_EarlierPiecesKept ==
    pc = "parsed" =>
        \A k \in 1..Len(candidates) :
            \A d \in EarlierPieces(candidates[k]) :
                \E n \in 1..Len(result) : result[n].element = d

-----------------------------------------------------------------------------
(* Properties of the dataset partitioner *)

\* the (article, type) pairs of the violation and no-violation elements of a
\* case that carry an article
OutcomePairs(c) ==
    {<<c.conclusion[k].article, c.conclusion[k].type>> :
        k \in {k \in 1..Len(c.conclusion) :
                  /\ c.conclusion[k].type \in {"violation", "no-violation"}
                  /\ "article" \in DOMAIN c.conclusion[k]}}

\* some article of the case is labelled both violation and no-violation
HasOpposedArticle(c) ==
    \E p \in OutcomePairs(c), q \in OutcomePairs(c) :
        p[1] = q[1] /\ p[2] = "violation" /\ q[2] = "no-violation"

Qualifies(c) == OutcomePairs(c) # {} /\ ~HasOpposedArticle(c)

\* the positions of norm_cases held by some per-article group
InSomeGroup ==
    UNION {Range(cases_per_articles[a]) : a \in DOMAIN cases_per_articles}

Selected == pc \in {"group", "multilabel", "multiclass", "partitioned"}

\* C9: the outcome-consistent subset holds exactly the cases with at least one
\* violation or no-violation element with an article and with no article
\* labelled both ways; a case outside it is in no per-article group, not in the
\* multilabel view and not in the multiclass view.
C9_OutcomeConsistentSubset ==
    Selected =>
        /\ Range(filtered_cases) = {i \in 1..Len(norm_cases) : Qualifies(norm_cases[i])}
        /\ \A i \in 1..Len(norm_cases) :
              i \notin Range(filtered_cases) =>
                 /\ i \notin InSomeGroup
                 /\ i \notin Range(multilabel_cases_unique)
                 /\ i \notin Range(multiclass_cases)

\* the entries of the multilabel view with a given itemid
MultilabelEntries(id) ==
    {n \in 1..Len(multilabel_cases_unique) : norm_cases[multilabel_cases_unique[n]].itemid = id}

\* C10: the multilabel view holds every outcome-consistent case exactly once by
\* itemid, however many groups hold the case and however often one group holds
\* it, and holds no case that is outside every per-article group.
C10_MultilabelOncePerCase ==
    pc \in {"multiclass", "partitioned"} =>
        /\ \A i \in Range(filtered_cases) :
              Cardinality(MultilabelEntries(norm_cases[i].itemid)) = 1
        /\ \A n \in 1..Len(multilabel_cases_unique) :
              multilabel_cases_unique[n] \in InSomeGroup

\* C10 witness: one case is held by two groups, one case is held twice by one
\* group, and the view lists each of the two once
C10_Witness ==
    /\ pc = "multiclass"
    /\ Len(multilabel_cases_unique) = 2
    /\ \E i \in 1..Len(norm_cases) :
          Cardinality({a \in DOMAIN cases_per_articles : i \in Range(cases_per_articles[a])}) = 2
    /\ \E i \in 1..Len(norm_cases) : \E a \in DOMAIN cases_per_articles :
          Cardinality({n \in 1..Len(cases_per_articles[a]) : cases_per_articles[a][n] = i}) = 2

\* the articles the elements of a case reference
ReferencedArticles(c) ==
    {c.conclusion[n].article :
        n \in {n \in 1..Len(c.conclusion) : "article" \in DOMAIN c.conclusion[n]}}

\* the entries of the multiclass view with a given itemid
MulticlassEntries(id) ==
    {n \in 1..Len(multiclass_cases) : norm_cases[multiclass_cases[n]].itemid = id}

\* C11: a case whose elements reference two or more distinct articles is not in
\* the multiclass view; every case of the view is listed once, references
\* exactly one article and carries an mc_conclusion of one element, which has
\* that article.
C11_MulticlassSingleArticle ==
    pc = "partitioned" =>
        /\ \A i \in 1..Len(norm_cases) :
              Cardinality(ReferencedArticles(norm_cases[i])) >= 2 =>
                 i \notin Range(multiclass_cases)
        /\ \A n \in 1..Len(multiclass_cases) :
              LET c == norm_cases[multiclass_cases[n]]
              IN  /\ MulticlassEntries(c.itemid) = {n}
                  /\ Cardinality(ReferencedArticles(c)) = 1
                  /\ "mc_conclusion" \in DOMAIN c
                  /\ Len(c.mc_conclusion) = 1
                  /\ "article" \in DOMAIN c.mc_conclusion[1]
                  /\ ReferencedArticles(c) = {c.mc_conclusion[1].article}

\* C11 witness: of two outcome-consistent cases, the one that references two
\* articles is left out and the one that references one article is listed
C11_Witness ==
    /\ pc = "partitioned"
    /\ Len(multiclass_cases) = 1
    /\ "mc_conclusion" \in DOMAIN norm_cases[multiclass_cases[1]]
    /\ \E i \in Range(filtered_cases) :
          /\ Cardinality(ReferencedArticles(norm_cases[i])) >= 2
          /\ i \notin Range(multiclass_cases)

-----------------------------------------------------------------------------
(* Properties of the party-name extraction *)

\* the position of the last occurrence of character ch in s, 0 if none
LastIndexOf(s, ch) ==
    IF \E n \in 1..Len(s) : s[n] = ch
    THEN CHOOSE n \in 1..Len(s) : s[n] = ch /\ \A m \in (n + 1)..Len(s) : s[m] # ch
    ELSE 0

\* a title without its 'CASE OF ' prefix
WithoutCaseOf(t) ==
    IF StartsWith(t, <<"C","A","S","E"," ","O","F"," ">>) THEN SubSeq(t, Len(<<"C","A","S","E"," ","O","F"," ">>) + 1, Len(t)) ELSE t

\* a title without its 'CASE OF ' prefix and without the parenthetical group
\* that ends it, if one does
TitleBody(t) ==
    LET b == WithoutCaseOf(t)
    IN  IF b # <<>> /\ Last(b) = ")" /\ LastIndexOf(b, "(") # 0
        THEN SubSeq(b, 1, LastIndexOf(b, "(") - 1)
        ELSE b

\* C12: format_parties returns, for every case title, a list of one or two
\* names, each without surrounding whitespace and each taken from the title
\* without its 'CASE OF ' prefix and its trailing parenthetical suffix; no title
\* makes it raise.
C12_PartiesOneOrTwoNames ==
    /\ pc # "IndexError"
    /\ pc = "formatted" =>
          /\ Len(parties) \in {1, 2}
          /\ \A n \in 1..Len(parties) :
                /\ Strip(parties[n]) = parties[n]
                /\ Contains(TitleBody(docname), parties[n])

-----------------------------------------------------------------------------
(* Properties of the filter pipeline *)

\* a is a subsequence of b: a is b with some entries left out
RECURSIVE IsSubsequence(_, _)
IsSubsequence(a, b) ==
    IF a = <<>> THEN TRUE
    ELSE IF b = <<>> THEN FALSE
    ELSE IF Head(a) = Head(b) THEN IsSubsequence(Tail(a), Tail(b))
    ELSE IsSubsequence(a, Tail(b))

ClearWords == {<<"N","o","-","v","i","o","l","a","t","i","o","n">>, <<"N","o"," ","v","i","o","l","a","t","i","o","n">>, <<"V","i","o","l","a","t","i","o","n">>, <<"v","i","o","l","a","t","i","o","n">>}

Denylist == {"001-154354", "001-108395", "001-79411"}

\* the k-th predicate of the pipeline, in the documented order
Passes(k, r) ==
    CASE k = 1 -> r.languageisocode = "ENG"
      [] k = 2 -> r.doctype = "HEJUD"
      [] k = 3 -> \E w \in ClearWords :
                     \E j \in 1..(Len(r.conclusion) - Len(w) + 1) :
                        SubSeq(r.conclusion, j, j + Len(w) - 1) = w
      [] k = 4 -> r.itemid \notin Denylist

\* the records of the input, in input order, that pass predicates 1..k
KeptUpTo(k) == SelectSeq(raw_cases, LAMBDA r : \A h \in 1..k : Passes(h, r))

\* C8: on a non-empty input the list after the k-th stage is the input records,
\* in input order, that pass predicates 1..k (language, doctype, conclusion,
\* denylist, in that order); each stage yields a subsequence of the list before
\* it, never a longer one, and the returned list is the records passing all four.
C8_FilterPipeline ==
    Len(raw_cases) > 0 =>
        /\ \A k \in 1..Len(remaining) :
              LET before == IF k = 1 THEN raw_cases ELSE remaining[k - 1]
              IN  /\ remaining[k] = KeptUpTo(k)
                  /\ IsSubsequence(remaining[k], before)
                  /\ Len(remaining[k]) <= Len(before)
        /\ Len(remaining) > 0 => cases = remaining[Len(remaining)]
        /\ pc = "filtered" => Len(remaining) = 4 /\ cases = KeptUpTo(4)
        /\ pc # "exit"

\* C8 witness: a three-record input lost its middle record in the third stage
\* and kept the other two in input order
C8_Witness ==
    /\ pc = "filtered"
    /\ Len(raw_cases) = 3
    /\ Len(remaining[2]) = 3
    /\ cases = <<raw_cases[1], raw_cases[3]>>
    /\ raw_cases[1] # raw_cases[3]

-----------------------------------------------------------------------------
(* Properties of the tokenizer and the resolver *)

\* s without its first character when that character is not a word character
DropLeadingNonWord(s) ==
    IF Len(s) > 0 /\ ~IsWordChar(s[1]) THEN SubSeq(s, 2, Len(s)) ELSE s

PlusParts == Split(article, <<"+">>)

\* the positions k < n whose successor part does not start with part k
KeptEarlier ==
    Ascending({k \in 1..(Len(PlusParts) - 1) :
                  ~(Len(PlusParts[k]) <= Len(PlusParts[k + 1])
                    /\ \A i \in 1..Len(PlusParts[k]) : PlusParts[k + 1][i] = PlusParts[k][i])})

Tokenized == pc \in {"resolve", "resolved"}

\* C5 as stated: the tokenizer returns the last part with one leading non-word
\* character stripped, followed by the kept earlier parts themselves.
C5_TokenizerKeepsPartsVerbatim ==
    Tokenized =>
        articles = <<DropLeadingNonWord(Last(PlusParts))>>
                   \o [i \in 1..Len(KeptEarlier) |-> PlusParts[KeptEarlier[i]]]

\* C5 amended: the tokenizer returns the last part followed, in original order,
\* by the earlier parts whose successor does not start with them, every returned
\* part with one leading non-word character stripped; the documented examples
\* give one, one, two, two and one token.
C5_TokenizerStripsEveryPart ==
    Tokenized =>
        /\ articles = <<DropLeadingNonWord(Last(PlusParts))>>
                      \o [i \in 1..Len(KeptEarlier) |->
                              DropLeadingNonWord(PlusParts[KeptEarlier[i]])]
        /\ ("+" \notin Range(article) => Len(articles) = 1)
        /\ (article = <<>> => articles = << <<>> >>)
        /\ (article = <<"3","+","1","3">> => Len(articles) = 2)
        /\ (article = <<"p","1","-","1","+","3">> => Len(articles) = 2)
        /\ (article = <<"3","+","3","-","1">> => articles = <<<<"3","-","1">>>>)

\* C5 witness: a kept earlier part lost its leading non-word character
C5_Witness ==
    /\ Tokenized
    /\ article = <<"-","3","+","1">>
    /\ articles = <<<<"1">>, <<"3">>>>

\* the text of s before its n-th hyphen, all of s when it has fewer
BeforeHyphen(s, n) ==
    LET hy == Ascending({i \in 1..Len(s) : s[i] = "-"})
    IN  IF Len(hy) < n THEN s ELSE SubSeq(s, 1, hy[n] - 1)

HasLetterP(s) == \E i \in 1..Len(s) : s[i] \in {"p", "P"}

\* C6: the resolver maps each token, position by position, to the text before
\* its first hyphen when it holds no letter p, and to its first two
\* hyphen-separated segments when it does.
C6_ResolverBaseGrouping ==
    pc = "resolved" =>
        /\ Len(base_articles) = Len(articles)
        /\ \A k \in 1..Len(articles) :
              /\ base_articles[k] =
                    BeforeHyphen(articles[k], IF HasLetterP(articles[k]) THEN 2 ELSE 1)
              /\ (articles[k] = <<"3","-","1">> => base_articles[k] = <<"3">>)
              /\ (articles[k] = <<"1","0">> => base_articles[k] = <<"1","0">>)
              /\ (articles[k] = <<"p","1","-","1">> => base_articles[k] = <<"p","1","-","1">>)
              /\ (articles[k] = <<"p","1","-","1","-","2">> => base_articles[k] = <<"p","1","-","1">>)

\* C6 witness: a protocol token with a sub-paragraph was resolved
C6_Witness ==
    /\ pc = "resolved"
    /\ articles = <<<<"p","1","-","1","-","2">>>>
    /\ base_articles = <<<<"p","1","-","1">>>>

====
